---- MODULE Spec2Model ----
(***************************************************************************)
(* Model of JerBouma/AlgorithmicTrading:                                   *)
(*   Statistical Arbitrage/cointegration_analysis.py  (Engle-Granger)      *)
(*   Options Arbitrage/black_scholes.py               (Black-Scholes)      *)
(*                                                                         *)
(* Both files are libraries of functions without shared state.  A          *)
(* behaviour of the model draws the arguments of a call in Init and then   *)
(* applies the functions to them; what a call did (its outcome and the     *)
(* library primitives it invoked, in order) is kept in the state.          *)
(***************************************************************************)
EXTENDS Integers, Sequences, FiniteSets, TLC

VARIABLES
    y, x,       \* the two arguments of a cointegration call
    pc,         \* "idle" before the call, "done" after it
    fn,         \* the cointegration function that was called ("none" before)
    status,     \* "ok" or the name of the exception that left the call
    msg,        \* which assert failed ("" when none did)
    log,        \* the statsmodels primitives invoked, in order, with arguments
    ret,        \* the value returned (a record; empty-shaped when none)
    S, K, T, r, sigma,  \* the arguments of the option pricer calls
    out         \* per option function: its outcome, or NotCalled

cvars == <<y, x, pc, fn, status, msg, log, ret>>
ovars == <<S, K, T, r, sigma, out>>
vars == <<y, x, pc, fn, status, msg, log, ret, S, K, T, r, sigma, out>>

(***************************************************************************)
(* Bounds of the model.                                                    *)
(***************************************************************************)
MaxN == 3           \* longest series drawn

(***************************************************************************)
(* Exact rational arithmetic.  The floating-point results of the least     *)
(* squares solver approximate these values; the claims checked here are    *)
(* about shapes, pairings and order of calls, not about rounding.          *)
(***************************************************************************)
Abs(a) == IF a < 0 THEN -a ELSE a

RECURSIVE GCD(_, _)
GCD(a, b) == IF b = 0 THEN a ELSE GCD(b, a % b)

Rat(n, d) ==
    LET g == GCD(Abs(n), Abs(d))
        s == IF d < 0 THEN -1 ELSE 1
    IN  [n |-> s * (n \div g), d |-> s * (d \div g)]

RInt(i) == [n |-> i, d |-> 1]
RAdd(a, b) == Rat(a.n * b.d + b.n * a.d, a.d * b.d)
RSub(a, b) == Rat(a.n * b.d - b.n * a.d, a.d * b.d)
RMul(a, b) == Rat(a.n * b.n, a.d * b.d)
RDiv(a, b) == Rat(a.n * b.d, a.d * b.n)
RZero == RInt(0)

RECURSIVE RSum(_)
RSum(s) == IF s = <<>> THEN RZero ELSE RAdd(Head(s), RSum(Tail(s)))

Dot(a, b) == RSum([i \in 1..Len(a) |-> RMul(a[i], b[i])])

(***************************************************************************)
(* pandas.Series: values, the mask of missing values (what isnull()        *)
(* returns) and the index.  kind is the Python type of the argument: a     *)
(* caller may also pass a plain list.                                      *)
(***************************************************************************)
Series(vals, isnull, index) ==
    [kind |-> "Series", vals |-> vals, isnull |-> isnull, index |-> index]

RangeIndex(start, n) == [i \in 1..n |-> start + i - 1]

NoNulls(n) == [i \in 1..n |-> FALSE]

isinstance_Series(s) == s.kind = "Series"

\* sum(s.isnull())
sum_isnull(s) == Cardinality({i \in DOMAIN s.isnull : s.isnull[i]})

\* a.index.equals(b.index)
index_equals(a, b) == a.index = b.index

\* Series.diff(): the first entry has no predecessor and is missing.
diff(s) ==
    Series([i \in 1..Len(s.vals) |->
                IF i = 1 THEN RZero ELSE RSub(s.vals[i], s.vals[i - 1])],
           [i \in 1..Len(s.vals) |->
                IF i = 1 THEN TRUE ELSE s.isnull[i] \/ s.isnull[i - 1]],
           s.index)

\* Series.shift(): every value moves one label later, the first is missing.
shift(s) ==
    Series([i \in 1..Len(s.vals) |-> IF i = 1 THEN RZero ELSE s.vals[i - 1]],
           [i \in 1..Len(s.vals) |-> IF i = 1 THEN TRUE ELSE s.isnull[i - 1]],
           s.index)

\* Series.iloc[1:]
iloc_from1(s) == Series(Tail(s.vals), Tail(s.isnull), Tail(s.index))

(***************************************************************************)
(* statsmodels primitives.  Their code is not part of the repository; they *)
(* are modelled by their documented behaviour on the arguments the         *)
(* repository passes them.                                                 *)
(***************************************************************************)
Ones(n) == [i \in 1..n |-> RInt(1)]

\* A design matrix: its columns, the rows holding a missing value, its index.
Frame(cols, isnull, index) == [cols |-> cols, isnull |-> isnull, index |-> index]

\* np.ptp(s) == 0.0 and np.any(s != 0.0): a column that already is a constant.
is_const(s) ==
    /\ sum_isnull(s) = 0
    /\ Len(s.vals) > 0
    /\ \A i \in DOMAIN s.vals : s.vals[i] = s.vals[1]
    /\ \E i \in DOMAIN s.vals : s.vals[i] # RZero

\* add_constant(x) with its defaults prepend=True, has_constant='skip': a
\* column of ones is put before x, unless x already is a non-zero constant
\* column, in which case x is returned as the only column.
add_constant(s) ==
    IF is_const(s)
    THEN Frame(<<s.vals>>, s.isnull, s.index)
    ELSE Frame(<<Ones(Len(s.vals)), s.vals>>, s.isnull, s.index)

\* A Series used as the only regressor.
as_exog(s) == Frame(<<s.vals>>, s.isnull, s.index)

\* The least-squares coefficients (Moore-Penrose solution, the default
\* method of OLS.fit) for one or two columns.
pinv_params(endog, cols) ==
    IF Len(cols) = 1
    THEN LET a == cols[1]
             Saa == Dot(a, a)
         IN  <<IF Saa = RZero THEN RZero ELSE RDiv(Dot(a, endog), Saa)>>
    ELSE LET a == cols[1]
             b == cols[2]
             Saa == Dot(a, a)
             Sab == Dot(a, b)
             Sbb == Dot(b, b)
             Say == Dot(a, endog)
             Sby == Dot(b, endog)
             D == RSub(RMul(Saa, Sbb), RMul(Sab, Sab))
             F == RAdd(Saa, Sbb)
         IN  IF D # RZero
             THEN <<RDiv(RSub(RMul(Say, Sbb), RMul(Sab, Sby)), D),
                    RDiv(RSub(RMul(Saa, Sby), RMul(Sab, Say)), D)>>
             ELSE IF F = RZero THEN <<RZero, RZero>>
             ELSE <<RDiv(Say, F), RDiv(Sby, F)>>

fitted(cols, params, i) ==
    RSum([j \in 1..Len(cols) |-> RMul(params[j], cols[j][i])])

\* OLS(endog, exog).fit(): params and resid, or the exception it raises.
\* Missing values in endog do not raise: they make every estimate NaN.
OLS(endog, exog) ==
    LET n == Len(endog.vals)
        bad == [status |-> "ValueError", params |-> <<>>, nan |-> FALSE,
                resid |-> Series(<<>>, <<>>, <<>>)]
    IN  IF endog.index # exog.index \/ n = 0 THEN bad
        ELSE IF \E i \in 1..n : exog.isnull[i]
        THEN [bad EXCEPT !.status = "MissingDataError"]
        ELSE IF sum_isnull(endog) > 0
        THEN [status |-> "ok",
              params |-> [j \in 1..Len(exog.cols) |-> RZero],
              nan |-> TRUE,
              resid |-> Series([i \in 1..n |-> RZero],
                               [i \in 1..n |-> TRUE], endog.index)]
        ELSE LET p == pinv_params(endog.vals, exog.cols)
             IN  [status |-> "ok", params |-> p, nan |-> FALSE,
                  resid |-> Series([i \in 1..n |->
                                      RSub(endog.vals[i], fitted(exog.cols, p, i))],
                                   NoNulls(n), endog.index)]

\* A call of OLS as kept in the log.  has_const is the keyword argument as
\* written ("None" when left out); it tells OLS what exog holds and adds no
\* column to it.
OLSCall(endog, exog, has_const) ==
    [prim |-> "OLS", endog |-> endog, exog |-> exog, has_const |-> has_const]

\* What the unit-root test can answer: a statistic and a p-value (in
\* percent) that the model does not compute, or a failure of the test
\* itself (a series too short for the lag order, or a constant one).
ADFOutcomes ==
    {[status |-> "ok", adfstat |-> s, pvalue |-> p] : s \in {-4, -1}, p \in {1, 60}}
    \cup {[status |-> "ValueError", adfstat |-> 0, pvalue |-> 0]}

\* adfuller(x, maxlag, autolag) -> (adfstat, pvalue, usedlag, nobs, crit).
\* With autolag None the lag order used is maxlag.
adfuller(z, maxlag, autolag, oracle) ==
    [status |-> oracle.status,
     adfstat |-> oracle.adfstat,
     pvalue |-> oracle.pvalue,
     usedlag |-> maxlag,
     nobs |-> Len(z.vals) - maxlag - 1]

\* A call of adfuller as kept in the log: its arguments and what it answered.
ADFCall(z, maxlag, autolag, adf) ==
    [prim |-> "adfuller", x |-> z, maxlag |-> maxlag, autolag |-> autolag,
     status |-> adf.status, adfstat |-> adf.adfstat, pvalue |-> adf.pvalue]

(***************************************************************************)
(* cointegration_analysis.py                                               *)
(***************************************************************************)
NoRet == [kind |-> "none"]

Raise(exc, m, l) == [status |-> exc, msg |-> m, log |-> l, ret |-> NoRet]

\* Validate without the assert on the missing values of x.
Validate_without_x_nan_assert(a, b) ==
    IF ~isinstance_Series(a) THEN "Input series y should be of type pd.Series"
    ELSE IF ~isinstance_Series(b) THEN "Input series x should be of type pd.Series"
    ELSE IF sum_isnull(a) # 0 THEN "Input series y has nan-values. Unhandled case."
    ELSE IF ~index_equals(a, b)
    THEN "The two input series y and x do not have the same index."
    ELSE ""

\* Validate with the asserts on missing values placed before the type asserts.
Validate_nan_asserts_first(a, b) ==
    IF sum_isnull(a) # 0 THEN "Input series y has nan-values. Unhandled case."
    ELSE IF sum_isnull(b) # 0 THEN "Input series x has nan-values. Unhandled case."
    ELSE IF ~isinstance_Series(a) THEN "Input series y should be of type pd.Series"
    ELSE IF ~isinstance_Series(b) THEN "Input series x should be of type pd.Series"
    ELSE IF ~index_equals(a, b)
    THEN "The two input series y and x do not have the same index."
    ELSE ""

\* The five asserts both functions open with, in order: the message of the
\* first that fails, "" when all pass.
Validate(a, b) ==
    IF ~isinstance_Series(a) THEN "Input series y should be of type pd.Series"
    ELSE IF ~isinstance_Series(b) THEN "Input series x should be of type pd.Series"
    ELSE IF sum_isnull(a) # 0 THEN "Input series y has nan-values. Unhandled case."
    ELSE IF sum_isnull(b) # 0 THEN "Input series x has nan-values. Unhandled case."
    ELSE IF ~index_equals(a, b)
    THEN "The two input series y and x do not have the same index."
    ELSE ""

\* The regressand and the regressor of the short-run regression.
short_run_endog(a) == iloc_from1(diff(a))
\* The regressor without the lag: z_t in place of z_(t-1).
short_run_exog_unlagged(z) == as_exog(iloc_from1(z))
short_run_exog(z) == as_exog(iloc_from1(shift(z)))

\* Returning the lagged, truncated residuals of the short-run regression.
estimate_return_truncated(c, gamma, alpha, z) ==
    [kind |-> "estimate", c |-> c, gamma |-> gamma, alpha |-> alpha,
     z |-> iloc_from1(shift(z))]

\* What the function returns: return c, gamma, alpha, z
estimate_return(c, gamma, alpha, z) ==
    [kind |-> "estimate", c |-> c, gamma |-> gamma, alpha |-> alpha, z |-> z]

\* Lines 57-62: the short-run regression on the residuals z of the long-run
\* fit, and the return.
estimate_short_run_fitted(c, gamma, z, short_run_ols_fit, log2) ==
    IF short_run_ols_fit.status # "ok" THEN Raise(short_run_ols_fit.status, "", log2)
    ELSE [status |-> "ok", msg |-> "", log |-> log2,
          ret |-> estimate_return(c, gamma, short_run_ols_fit.params[1], z)]

estimate_short_run(a, c, gamma, z, endog2, exog2, log1) ==
    estimate_short_run_fitted(c, gamma, z, OLS(endog2, exog2),
                              Append(log1, OLSCall(endog2, exog2, "None")))

\* Lines 54-55: c, gamma = long_run_ols_fit.params unpacks exactly two
\* values; z = long_run_ols_fit.resid.
estimate_long_run_fitted(a, long_run_ols_fit, log1) ==
    IF long_run_ols_fit.status # "ok" THEN Raise(long_run_ols_fit.status, "", log1)
    ELSE IF Len(long_run_ols_fit.params) # 2 THEN Raise("ValueError", "", log1)
    ELSE estimate_short_run(a, long_run_ols_fit.params[1], long_run_ols_fit.params[2],
                            long_run_ols_fit.resid,
                            short_run_endog(a),
                            short_run_exog(long_run_ols_fit.resid), log1)

\* Lines 51-52: OLS(y, add_constant(x), has_const=True).fit()
estimate_long_run(a, X) ==
    estimate_long_run_fitted(a, OLS(a, X), <<OLSCall(a, X, "True")>>)

estimate_validated(a, b, v) ==
    IF v # "" THEN Raise("AssertionError", v, <<>>)
    ELSE estimate_long_run(a, add_constant(b))

estimate_long_run_short_run_relationships(a, b) ==
    estimate_validated(a, b, Validate(a, b))

\* Testing the truncated residuals in place of the full sequence.
adf_input_truncated(z) == iloc_from1(z)
adf_input(z) == z
adf_maxlag == 1
adf_autolag == "None"

\* return adfstat, pvalue
eg_return(adf) == [kind |-> "eg", adfstat |-> adf.adfstat, pvalue |-> adf.pvalue]

\* Line 112, or the failure of adfuller propagated.
eg_tested(e, z, adf) ==
    IF adf.status # "ok"
    THEN Raise(adf.status, "", Append(e.log, ADFCall(z, adf_maxlag, adf_autolag, adf)))
    ELSE [status |-> "ok", msg |-> "",
          log |-> Append(e.log, ADFCall(z, adf_maxlag, adf_autolag, adf)),
          ret |-> eg_return(adf)]

\* Line 110: adfuller(z, maxlag=1, autolag=None)
eg_test(e, z, oracle) == eg_tested(e, z, adfuller(z, adf_maxlag, adf_autolag, oracle))

\* Line 103: c, gamma, alpha, z = estimate_long_run_short_run_relationships(y, x)
eg_estimated(e, oracle) ==
    IF e.status # "ok" THEN e ELSE eg_test(e, adf_input(e.ret.z), oracle)

eg_validated(a, b, v, oracle) ==
    IF v # "" THEN Raise("AssertionError", v, <<>>)
    ELSE eg_estimated(estimate_long_run_short_run_relationships(a, b), oracle)

engle_granger_two_step_cointegration_test(a, b, oracle) ==
    eg_validated(a, b, Validate(a, b), oracle)

OptionFunctions ==
    {"call_value", "put_value", "call_delta", "put_delta", "call_vega", "put_vega"}

\* The outcome kept for an option function that was not called yet.
NotCalled == [status |-> "not_called"]
NoOut == [f \in OptionFunctions |-> NotCalled]

(***************************************************************************)
(* The arguments drawn for a cointegration call.                           *)
(***************************************************************************)
YVals == {0, 1}
XVals == {0, 1, 2}

\* The entries of a drawn series: a value of vs, or a missing value.
Entries(vs) == {[v |-> RInt(v), null |-> FALSE] : v \in vs}
                 \cup {[v |-> RZero, null |-> TRUE]}

Lens == 2..MaxN

MkArg(kind, es, start) ==
    [kind |-> kind,
     vals |-> [i \in 1..Len(es) |-> es[i].v],
     isnull |-> [i \in 1..Len(es) |-> es[i].null],
     index |-> RangeIndex(start, Len(es))]

YArgs ==
    UNION {{MkArg(k, es, 0) : es \in [1..n -> Entries(YVals)], k \in {"Series", "list"}}
            : n \in Lens}

XArgs ==
    UNION {{MkArg(k, es, s) : es \in [1..n -> Entries(XVals)],
                               k \in {"Series", "list"}, s \in {0, 1}}
            : n \in Lens}

NoArg == MkArg("none", <<>>, 0)

CointIdle ==
    /\ pc = "idle" /\ fn = "none" /\ status = "" /\ msg = ""
    /\ log = <<>> /\ ret = NoRet

OptionsUnused ==
    /\ S = 0 /\ K = 0 /\ T = 0 /\ r = 0 /\ sigma = 0
    /\ out = NoOut

InitCoint ==
    /\ y \in YArgs
    /\ x \in XArgs
    /\ CointIdle
    /\ OptionsUnused

Finish(f, res) ==
    /\ pc' = "done"
    /\ fn' = f
    /\ status' = res.status
    /\ msg' = res.msg
    /\ log' = res.log
    /\ ret' = res.ret
    /\ UNCHANGED <<y, x>>
    /\ UNCHANGED ovars

Estimate ==
    /\ pc = "idle"
    /\ Finish("estimate", estimate_long_run_short_run_relationships(y, x))

EngleGranger ==
    /\ pc = "idle"
    /\ \E oracle \in ADFOutcomes :
          Finish("eg", engle_granger_two_step_cointegration_test(y, x, oracle))

NextCoint == Estimate \/ EngleGranger

SpecCoint == InitCoint /\ [][NextCoint]_vars

(***************************************************************************)
(* Floating-point numbers of the option pricer, in fixed point: a finite   *)
(* value v stands for v / One.  The values IEEE arithmetic adds are kept:  *)
(* NaN, the two infinities and the negative zero (which decides the sign   *)
(* of a division by zero).                                                 *)
(***************************************************************************)
One == 1000

Fin(v) == [k |-> "fin", v |-> v]
NegZero == [k |-> "negzero", v |-> 0]
NaN == [k |-> "nan", v |-> 0]
PInf == [k |-> "inf", v |-> 0]
NInf == [k |-> "ninf", v |-> 0]

IsFinite(a) == a.k \in {"fin", "negzero"}
IsNaN(a) == a.k = "nan"
IsInf(a) == a.k \in {"inf", "ninf"}

\* The sign bit: TRUE for negative values, the negative zero and -inf.
SignBit(a) == a.k \in {"negzero", "ninf"} \/ (a.k = "fin" /\ a.v < 0)

Signed(neg, a) == IF neg THEN (IF a.k = "inf" THEN NInf ELSE a) ELSE a

\* a / b for integers, b # 0, rounded to the nearest integer.
RoundDiv(a, b) ==
    LET n == IF b < 0 THEN -a ELSE a
        d == Abs(b)
    IN  (2 * n + d) \div (2 * d)

\* A finite result v whose sign bit is neg (a zero keeps its sign).
FinSigned(v, neg) == IF v = 0 /\ neg THEN NegZero ELSE Fin(v)

FNeg(a) ==
    CASE a.k = "nan" -> NaN
      [] a.k = "inf" -> NInf
      [] a.k = "ninf" -> PInf
      [] a.k = "negzero" -> Fin(0)
      [] OTHER -> FinSigned(-a.v, ~SignBit(a))

FAdd(a, b) ==
    IF IsNaN(a) \/ IsNaN(b) THEN NaN
    ELSE IF IsInf(a) /\ IsInf(b) THEN (IF a.k = b.k THEN a ELSE NaN)
    ELSE IF IsInf(a) THEN a
    ELSE IF IsInf(b) THEN b
    ELSE FinSigned(a.v + b.v, a.k = "negzero" /\ b.k = "negzero")

FSub(a, b) == FAdd(a, FNeg(b))

FMul(a, b) ==
    LET neg == SignBit(a) # SignBit(b) IN
    IF IsNaN(a) \/ IsNaN(b) THEN NaN
    ELSE IF IsInf(a) \/ IsInf(b)
    THEN IF (IsFinite(a) /\ a.v = 0) \/ (IsFinite(b) /\ b.v = 0) THEN NaN
         ELSE Signed(neg, PInf)
    ELSE FinSigned(RoundDiv(a.v * b.v, One), neg)

\* Division of numpy floats: a zero divisor gives an infinity or NaN (with a
\* warning), never an exception.
FDiv(a, b) ==
    LET neg == SignBit(a) # SignBit(b) IN
    IF IsNaN(a) \/ IsNaN(b) THEN NaN
    ELSE IF IsInf(b) THEN (IF IsInf(a) THEN NaN ELSE FinSigned(0, neg))
    ELSE IF IsInf(a) THEN Signed(neg, PInf)
    ELSE IF b.v = 0 THEN (IF a.v = 0 THEN NaN ELSE Signed(neg, PInf))
    ELSE FinSigned(RoundDiv(a.v * One, b.v), neg)

\* Integer square root of n, by bisection of lo..hi (lo * lo <= n < hi * hi).
RECURSIVE ISqrtIn(_, _, _)
ISqrtIn(n, lo, hi) ==
    IF hi - lo <= 1 THEN lo
    ELSE LET mid == (lo + hi) \div 2
         IN  IF mid * mid <= n THEN ISqrtIn(n, mid, hi) ELSE ISqrtIn(n, lo, mid)

ISqrt(n) == ISqrtIn(n, 0, IF n < 46340 THEN n + 1 ELSE 46340)

\* np.sqrt: NaN for a negative argument.
NpSqrt(a) ==
    CASE IsNaN(a) \/ a.k = "ninf" -> NaN
      [] a.k = "inf" -> PInf
      [] a.k = "negzero" -> NegZero
      [] OTHER -> IF a.v < 0 THEN NaN ELSE Fin(ISqrt(a.v * One))

\* ln of v / One for v > 0 (ln 2 = 0.693): halving or doubling into [0.75, 1.5), then the
\* series 2 (u + u^3/3 + u^5/5) with u = (v - 1) / (v + 1).
RECURSIVE LnFix(_)
LnFix(v) ==
    IF v >= (3 * One) \div 2 THEN 693 + LnFix(RoundDiv(v, 2))
    ELSE IF v < (3 * One) \div 4 THEN LnFix(2 * v) - 693
    ELSE LET u == RoundDiv((v - One) * One, v + One)
             u2 == RoundDiv(u * u, One)
             u3 == RoundDiv(u2 * u, One)
             u5 == RoundDiv(u3 * u2, One)
         IN  2 * (u + RoundDiv(u3, 3) + RoundDiv(u5, 5))

\* np.log: -inf at zero, NaN below it.
NpLog(a) ==
    CASE IsNaN(a) \/ a.k = "ninf" -> NaN
      [] a.k = "inf" -> PInf
      [] a.k = "negzero" -> NInf
      [] OTHER -> IF a.v < 0 THEN NaN
                  ELSE IF a.v = 0 THEN NInf
                  ELSE Fin(LnFix(a.v))

\* e^(w / One): squaring down to |w| <= 1/2, then the Taylor series.
RECURSIVE ExpFix(_)
ExpFix(w) ==
    IF Abs(w) > One \div 2
    THEN LET h == ExpFix(RoundDiv(w, 2)) IN RoundDiv(h * h, One)
    ELSE LET w2 == RoundDiv(w * w, One)
             w3 == RoundDiv(w2 * w, One)
             w4 == RoundDiv(w3 * w, One)
         IN  One + w + RoundDiv(w2, 2) + RoundDiv(w3, 6) + RoundDiv(w4, 24)

NpExp(a) ==
    CASE IsNaN(a) -> NaN
      [] a.k = "inf" -> PInf
      [] a.k = "ninf" -> Fin(0)
      [] OTHER -> Fin(ExpFix(a.v))

(***************************************************************************)
(* The standard normal distribution, tabulated at 0, 0.25, ..., 4 and      *)
(* interpolated linearly between the knots; the cdf is completed by        *)
(* cdf(-a) = 1 - cdf(a), the pdf by pdf(-a) = pdf(a).                      *)
(***************************************************************************)
Knot == One \div 4
CdfTable == <<500, 599, 691, 773, 841, 894, 933, 960, 977,
              988, 994, 997, 999, 999, 1000, 1000, 1000>>
PdfTable == <<399, 387, 352, 301, 242, 183, 130, 86, 54,
              32, 18, 9, 4, 2, 1, 0, 0>>

Interp(tab, v) ==
    LET i == v \div Knot IN
    IF i + 1 >= Len(tab) THEN tab[Len(tab)]
    ELSE tab[i + 1] + RoundDiv((tab[i + 2] - tab[i + 1]) * (v - i * Knot), Knot)

\* stats.norm(0, 1).cdf
_norm_cdf(a) ==
    CASE IsNaN(a) -> NaN
      [] a.k = "inf" -> Fin(One)
      [] a.k = "ninf" -> Fin(0)
      [] OTHER -> IF a.v >= 0 THEN Fin(Interp(CdfTable, a.v))
                  ELSE Fin(One - Interp(CdfTable, -a.v))

\* stats.norm(0, 1).pdf
_norm_pdf(a) ==
    CASE IsNaN(a) -> NaN
      [] IsInf(a) -> Fin(0)
      [] OTHER -> Fin(Interp(PdfTable, Abs(a.v)))

(***************************************************************************)
(* black_scholes.py                                                        *)
(***************************************************************************)
Ok(v) == [status |-> "ok", val |-> v]
Raised(e) == [status |-> e, val |-> NaN]

\* S / K on Python floats: a zero divisor raises.
PyDiv(a, b) ==
    IF IsFinite(b) /\ b.v = 0 THEN Raised("ZeroDivisionError") ELSE Ok(FDiv(a, b))

Half == Fin(One \div 2)

_d1(pS, pK, pT, pr, psigma) ==
    LET q == PyDiv(pS, pK) IN
    IF q.status # "ok" THEN q
    ELSE Ok(FDiv(FAdd(NpLog(q.val),
                      FMul(FAdd(pr, FMul(Half, FMul(psigma, psigma))), pT)),
                 FMul(psigma, NpSqrt(pT))))

_d2(pS, pK, pT, pr, psigma) ==
    LET d1 == _d1(pS, pK, pT, pr, psigma) IN
    IF d1.status # "ok" THEN d1
    ELSE Ok(FSub(d1.val, FMul(psigma, NpSqrt(pT))))

\* np.exp(-r * T)
discount(pr, pT) == NpExp(FMul(FNeg(pr), pT))

call_value(pS, pK, pT, pr, psigma) ==
    LET d1 == _d1(pS, pK, pT, pr, psigma)
        d2 == _d2(pS, pK, pT, pr, psigma)
    IN  IF d1.status # "ok" THEN d1
        ELSE IF d2.status # "ok" THEN d2
        ELSE Ok(FSub(FMul(pS, _norm_cdf(d1.val)),
                     FMul(FMul(pK, discount(pr, pT)), _norm_cdf(d2.val))))

\* put_value with S * cdf(d1) as its second term (the negation of d1 lost).
put_value_d1_not_negated(pS, pK, pT, pr, psigma) ==
    LET d2 == _d2(pS, pK, pT, pr, psigma)
        d1 == _d1(pS, pK, pT, pr, psigma)
    IN  IF d2.status # "ok" THEN d2
        ELSE IF d1.status # "ok" THEN d1
        ELSE Ok(FSub(FMul(FMul(discount(pr, pT), pK), _norm_cdf(FNeg(d2.val))),
                     FMul(pS, _norm_cdf(d1.val))))

put_value(pS, pK, pT, pr, psigma) ==
    LET d2 == _d2(pS, pK, pT, pr, psigma)
        d1 == _d1(pS, pK, pT, pr, psigma)
    IN  IF d2.status # "ok" THEN d2
        ELSE IF d1.status # "ok" THEN d1
        ELSE Ok(FSub(FMul(FMul(discount(pr, pT), pK), _norm_cdf(FNeg(d2.val))),
                     FMul(pS, _norm_cdf(FNeg(d1.val)))))

call_delta(pS, pK, pT, pr, psigma) ==
    LET d1 == _d1(pS, pK, pT, pr, psigma) IN
    IF d1.status # "ok" THEN d1 ELSE Ok(_norm_cdf(d1.val))

\* put_delta computed from d2 in place of the call's delta.
put_delta_from_d2(pS, pK, pT, pr, psigma) ==
    LET d2 == _d2(pS, pK, pT, pr, psigma) IN
    IF d2.status # "ok" THEN d2 ELSE Ok(FSub(_norm_cdf(d2.val), Fin(One)))

put_delta(pS, pK, pT, pr, psigma) ==
    LET cd == call_delta(pS, pK, pT, pr, psigma) IN
    IF cd.status # "ok" THEN cd ELSE Ok(FSub(cd.val, Fin(One)))

call_vega(pS, pK, pT, pr, psigma) ==
    LET d1 == _d1(pS, pK, pT, pr, psigma) IN
    IF d1.status # "ok" THEN d1
    ELSE Ok(FMul(FMul(pS, _norm_pdf(d1.val)), NpSqrt(pT)))

\* put_vega with its own formula, evaluated at d2.
put_vega_from_d2(pS, pK, pT, pr, psigma) ==
    LET d2 == _d2(pS, pK, pT, pr, psigma) IN
    IF d2.status # "ok" THEN d2
    ELSE Ok(FMul(FMul(pS, _norm_pdf(d2.val)), NpSqrt(pT)))

put_vega(pS, pK, pT, pr, psigma) == call_vega(pS, pK, pT, pr, psigma)

(***************************************************************************)
(* The arguments drawn for the option pricer, in units of 1 / One: valid   *)
(* ones and the malformed ones (zero and negative S, K, T, sigma).         *)
(***************************************************************************)
SVals == {-10000, 0, 8000, 10000}
KVals == {-10000, 0, 10000, 12000}
TVals == {-1000, 0, 250, 1000}
rVals == {-20, 0, 50}
sigmaVals == {-200, 0, 200, 400}

CointUnused ==
    /\ y = NoArg /\ x = NoArg
    /\ CointIdle

InitOptions ==
    /\ S \in SVals /\ K \in KVals /\ T \in TVals /\ r \in rVals
    /\ sigma \in sigmaVals
    /\ out = NoOut
    /\ CointUnused

Return(f, res) ==
    /\ out[f] = NotCalled
    /\ out' = [out EXCEPT ![f] = res]
    /\ UNCHANGED <<S, K, T, r, sigma>>
    /\ UNCHANGED cvars

CallValue == Return("call_value", call_value(Fin(S), Fin(K), Fin(T), Fin(r), Fin(sigma)))
PutValue == Return("put_value", put_value(Fin(S), Fin(K), Fin(T), Fin(r), Fin(sigma)))
CallDelta == Return("call_delta", call_delta(Fin(S), Fin(K), Fin(T), Fin(r), Fin(sigma)))
PutDelta == Return("put_delta", put_delta(Fin(S), Fin(K), Fin(T), Fin(r), Fin(sigma)))
CallVega == Return("call_vega", call_vega(Fin(S), Fin(K), Fin(T), Fin(r), Fin(sigma)))
PutVega == Return("put_vega", put_vega(Fin(S), Fin(K), Fin(T), Fin(r), Fin(sigma)))

NextOptions ==
    \/ CallValue \/ PutValue
    \/ CallDelta \/ PutDelta
    \/ CallVega \/ PutVega

SpecOptions == InitOptions /\ [][NextOptions]_vars

(***************************************************************************)
(* Properties of cointegration_analysis.py, checked under SpecCoint.       *)
(***************************************************************************)
YTypeMsg == "Input series y should be of type pd.Series"
XTypeMsg == "Input series x should be of type pd.Series"

\* The arguments are two Series that pass the five asserts.
ValidPair ==
    /\ y.kind = "Series" /\ x.kind = "Series"
    /\ sum_isnull(y) = 0 /\ sum_isnull(x) = 0
    /\ y.index = x.index

\* Lengths or indices differ, or a value is missing in y or in x.
MismatchOrMissing ==
    \/ Len(y.vals) # Len(x.vals)
    \/ y.index # x.index
    \/ sum_isnull(y) > 0
    \/ sum_isnull(x) > 0

N == Len(y.vals)

\* C1: a call of either function with series that differ in length or
\* index, or with a missing value in either, ends in the AssertionError of
\* the opening asserts, with no OLS and no adfuller call made before it
\* and nothing returned.
C1_InvalidInputRejectedBeforeRegression ==
    (pc = "done" /\ MismatchOrMissing)
        => /\ status = "AssertionError"
           /\ msg # ""
           /\ log = <<>>
           /\ ret = NoRet

C1_Witness ==
    /\ pc = "done" /\ fn = "eg"
    /\ y.kind = "Series" /\ x.kind = "Series"
    /\ y.index = x.index
    /\ sum_isnull(y) = 0 /\ sum_isnull(x) = 1
    /\ status = "AssertionError"
    /\ msg = "Input series x has nan-values. Unhandled case."

\* C10: a call of either function with a y or an x that is no pd.Series
\* fails on the type assert (that of y when y is none, else that of x),
\* whatever the values and indices are, and no OLS or adfuller call is made.
C10_NonSeriesRejectedByTypeAssertFirst ==
    (pc = "done" /\ (y.kind # "Series" \/ x.kind # "Series"))
        => /\ status = "AssertionError"
           /\ msg = (IF y.kind # "Series" THEN YTypeMsg ELSE XTypeMsg)
           /\ log = <<>>
           /\ ret = NoRet

C10_Witness ==
    /\ pc = "done" /\ fn = "estimate"
    /\ y.kind = "Series" /\ x.kind = "list"
    /\ Len(x.vals) = Len(y.vals)
    /\ sum_isnull(y) = 0 /\ sum_isnull(x) = 0
    /\ status = "AssertionError" /\ msg = XTypeMsg

\* The residual of the long-run relationship at position i, from the
\* returned coefficients: y_i - (c + gamma * x_i).
LongRunResidual(i) ==
    RSub(y.vals[i], RAdd(ret.c, RMul(ret.gamma, x.vals[i])))

\* C3: when estimate_long_run_short_run_relationships returns, z has one
\* entry per time point of y and x, carries their index, holds no missing
\* value, and its entry at each time point is the residual of the long-run
\* relationship there (so it is not the lagged series of N - 1 entries).
C3_ReturnedResidualIsFullLength ==
    (pc = "done" /\ fn = "estimate" /\ status = "ok")
        => /\ Len(ret.z.vals) = N
           /\ ret.z.index = y.index
           /\ ret.z.index = x.index
           /\ sum_isnull(ret.z) = 0
           /\ \A i \in 1..N : ret.z.vals[i] = LongRunResidual(i)

C3_Witness ==
    /\ pc = "done" /\ fn = "estimate" /\ status = "ok"
    /\ N = 3
    /\ Len(ret.z.vals) = 3
    /\ ret.z.vals[1] # RZero
    /\ ret.z.vals[1] # ret.z.vals[2]

\* C4: whenever the short-run regression is fitted (the second OLS call),
\* it has the lagged residual as its only column (no intercept) and N - 1
\* observations; the observation at position j is that of time point
\* t = j + 1: its regressand is y_t - y_(t-1), its regressor z_(t-1), and
\* both carry the index label of t.
C4_ShortRunRegressionPairsDiffWithLag ==
    (pc = "done" /\ Len(log) >= 2 /\ status = "ok")
        => LET call == log[2]
               z == IF fn = "estimate" THEN ret.z ELSE log[3].x
           IN  /\ call.prim = "OLS"
               /\ Len(call.exog.cols) = 1
               /\ Len(call.endog.vals) = N - 1
               /\ Len(call.exog.cols[1]) = N - 1
               /\ sum_isnull(call.endog) = 0
               /\ \A j \in 1..(N - 1) : ~call.exog.isnull[j]
               /\ \A j \in 1..(N - 1) :
                    /\ call.endog.vals[j] = RSub(y.vals[j + 1], y.vals[j])
                    /\ call.exog.cols[1][j] = z.vals[j]
                    /\ call.endog.index[j] = y.index[j + 1]
                    /\ call.exog.index[j] = y.index[j + 1]

C4_Witness ==
    /\ pc = "done" /\ fn = "estimate" /\ status = "ok"
    /\ N = 3
    /\ Len(log) = 2
    /\ log[2].exog.cols[1][1] # log[2].exog.cols[1][2]
    /\ log[2].endog.vals[1] # log[2].endog.vals[2]

\* The adfuller calls in the log.
ADFCalls == {i \in DOMAIN log : log[i].prim = "adfuller"}

\* C5: adfuller is called at most once, never by the estimate function,
\* and only after the two regressions of the estimate; when the test
\* function returns, the calls before it are those of
\* estimate_long_run_short_run_relationships(y, x), adfuller was given the
\* full residual sequence of that estimate with maxlag 1 and autolag None,
\* and the pair returned is the statistic and the p-value it answered.
C5_TestRunsADFOnceOnFullResidual ==
    /\ Cardinality(ADFCalls) <= 1
    /\ \A i \in ADFCalls : i = 3 /\ fn = "eg" /\ log[1].prim = "OLS" /\ log[2].prim = "OLS"
    /\ (pc = "done" /\ fn = "eg" /\ status = "ok")
        => LET e == estimate_long_run_short_run_relationships(y, x) IN
           /\ Len(log) = 3
           /\ SubSeq(log, 1, 2) = e.log
           /\ log[3].prim = "adfuller"
           /\ log[3].x = e.ret.z
           /\ Len(log[3].x.vals) = N
           /\ log[3].maxlag = 1
           /\ log[3].autolag = "None"
           /\ log[3].status = "ok"
           /\ ret = [kind |-> "eg", adfstat |-> log[3].adfstat,
                     pvalue |-> log[3].pvalue]

C5_Witness ==
    /\ pc = "done" /\ fn = "eg" /\ status = "ok"
    /\ N = 3
    /\ Len(log) = 3
    /\ ret.adfstat = -4 /\ ret.pvalue = 1
    /\ log[3].x.vals[1] # log[3].x.vals[3]

\* C9: for every pair that passes the asserts, an x with equal values
\* included, the long-run regression is fitted on a column of ones and x,
\* and the call returns c and gamma with one residual per time point.
C9_LongRunRegressionHasInterceptAndSlope ==
    (pc = "done" /\ fn = "estimate" /\ ValidPair)
        => /\ Len(log) >= 1
           /\ log[1].prim = "OLS"
           /\ log[1].exog.cols = <<Ones(N), x.vals>>
           /\ status = "ok"
           /\ Len(ret.z.vals) = N

(***************************************************************************)
(* Properties of black_scholes.py, checked under SpecOptions.              *)
(***************************************************************************)
Called(f) == out[f].status # "not_called"
Returned(f) == out[f].status = "ok"

\* S, K, T and sigma are positive (r is any real).
ValidOption == S > 0 /\ K > 0 /\ T > 0 /\ sigma > 0

\* d1 of the drawn arguments.
D1 == _d1(Fin(S), Fin(K), Fin(T), Fin(r), Fin(sigma))

\* C2: no call of any of the six functions raises, whatever the arguments.
C2_NoOptionCallRaises ==
    \A f \in OptionFunctions : Called(f) => Returned(f)

\* C6: for positive S, K, T and sigma, call_value - put_value differs from
\* S - K * e^(-r T) by no more than the rounding of the four products
\* (two units of 1 / One).
C6_PutCallParity ==
    (ValidOption /\ Called("call_value") /\ Called("put_value"))
        => /\ Returned("call_value") /\ Returned("put_value")
           /\ LET lhs == FSub(out["call_value"].val, out["put_value"].val)
                  rhs == FSub(Fin(S), FMul(Fin(K), NpExp(FMul(FNeg(Fin(r)), Fin(T)))))
              IN  /\ IsFinite(lhs) /\ IsFinite(rhs)
                  /\ Abs(lhs.v - rhs.v) <= 2

C6_Witness ==
    /\ ValidOption /\ r > 0 /\ S < K
    /\ Returned("call_value") /\ Returned("put_value")
    /\ out["call_value"].val.v > 0
    /\ out["put_value"].val.v > out["call_value"].val.v

\* C7: once both deltas were computed, put_delta ended as call_delta did,
\* and when they returned, call_delta is the normal cdf at d1 and put_delta
\* is call_delta - 1 (of the same kind: NaN where call_delta is NaN).
C7_PutDeltaIsCallDeltaMinusOne ==
    /\ Called("call_delta") =>
           /\ out["call_delta"].status = D1.status
           /\ Returned("call_delta") => out["call_delta"].val = _norm_cdf(D1.val)
    /\ (Called("call_delta") /\ Called("put_delta")) =>
           /\ out["put_delta"].status = out["call_delta"].status
           /\ Returned("call_delta") =>
                  out["put_delta"].val = FSub(out["call_delta"].val, Fin(One))

C7_Witness ==
    /\ ValidOption
    /\ Returned("call_delta") /\ Returned("put_delta")
    /\ out["call_delta"].val.k = "fin"
    /\ out["call_delta"].val.v > One \div 2
    /\ out["call_delta"].val.v < One
    /\ out["put_delta"].val.v < 0

\* C8: once both vegas were computed, put_vega ended as call_vega did, and
\* when they returned, both are S * pdf(d1) * sqrt(T).
C8_PutVegaIsCallVega ==
    /\ Called("call_vega") =>
           /\ out["call_vega"].status = D1.status
           /\ Returned("call_vega") =>
                  out["call_vega"].val =
                      FMul(FMul(Fin(S), _norm_pdf(D1.val)), NpSqrt(Fin(T)))
    /\ (Called("call_vega") /\ Called("put_vega")) =>
           out["put_vega"] = out["call_vega"]

C8_Witness ==
    /\ ValidOption
    /\ Returned("call_vega") /\ Returned("put_vega")
    /\ out["call_vega"].val.k = "fin"
    /\ out["call_vega"].val.v > 0
    /\ out["put_vega"].val.v > 0

====
